---- MODULE Spec2Model ----
(***************************************************************************)
(* Model of the cross-browser test harness:                                *)
(*   main.py             main: create the csv log, then `repeat` times     *)
(*                       map test_expandable over the drivers in a process *)
(*                       pool and append the batch to the log;             *)
(*   test_expandable.py  test_scenario (the statements of the scenario)    *)
(*                       and test_expandable (construct, time, run, catch, *)
(*                       stop, close, return the row);                     *)
(*   usefull/helpers.py  analyse_error, create_csv_file,                   *)
(*                       append_to_csv_file, TimeMeasure;                  *)
(*   usefull/driver.py   AvailableBrowserDrivers and the wait helpers the  *)
(*                       scenario calls.                                   *)
(* Two specifications share the definitions: Spec is the harness (main and *)
(* its pool workers, each worker one atomic run of test_expandable), and   *)
(* RecorderSpec is one invocation of test_expandable statement by          *)
(* statement.                                                              *)
(***************************************************************************)
EXTENDS Integers, Sequences, FiniteSets, TLC

VARIABLES
    \* ---- harness (main.py) ----
    runs,         \* number of times main has been started
    mainPc,       \* where main is: idle, create, loop, collect, append, unwind, done, aborted
    repeat,       \* main's argument
    iter,         \* iterations of the for loop completed
    fileExists,   \* os.path.isfile(filename)
    file,         \* the rows of the csv file, each a sequence of strings
    rowsBefore,   \* data rows in the file when this run of main started
    requested,    \* the repeat arguments of all runs so far, added up
    wpc,          \* per submitted call: none, pending, running, returned, cancelled,
                  \* construct_error or scenario_error (the call ended with an exception)
    wres,         \* per submitted call: the list test_expandable returned
    finishOrder,  \* the calls of this iteration in the order they finished
    res,          \* the list being built by list(executor.map(...))
    \* ---- one invocation of test_expandable (test_expandable.py) ----
    pc,           \* statement of test_expandable about to run
    driver_class, \* the argument: the browser of the class to instantiate
    driver,       \* the handle: browser tag, session state, number of close() calls
    timer,        \* the TimeMeasure object
    now,          \* the wall clock, in milliseconds
    stmt,         \* index in test_scenario of the statement about to run
    exc,          \* the exception being handled: its type name and traceback
    retval,       \* the value of a return statement waiting for the finally block
    result,       \* what the invocation handed to its caller
    elements,     \* test_scenario's element variables: the frame context each was found in
    hist,         \* clock readings at construction and at close, what stop() returned,
                  \* and whether an element was used outside the context it was found in
    \* ---- one call of a driver class constructor (usefull/driver.py) ----
    ctor          \* the arguments, the position in __init__ and the object's fields

harnessVars == <<runs, mainPc, repeat, iter, fileExists, file, rowsBefore, requested,
                 wpc, wres, finishOrder, res>>
recorderVars == <<pc, driver_class, driver, timer, now, stmt, exc, retval, result,
                  elements, hist>>
driverVars == <<ctor>>
vars == <<runs, mainPc, repeat, iter, fileExists, file, rowsBefore, requested,
          wpc, wres, finishOrder, res,
          pc, driver_class, driver, timer, now, stmt, exc, retval, result,
          elements, hist, ctor>>

----------------------------------------------------------------------------
(* Bounds of the model. *)

\* main is started at most MaxRuns times on the same log file
MaxRuns == 2
\* the repeat argument of one run ranges over 0..MaxRepeat
MaxRepeat == 2
\* the repeat arguments of all runs together add up to at most MaxTotalRepeat
MaxTotalRepeat == 3
\* the clock of an invocation runs for at most MaxSeconds seconds
MaxSeconds == 3

----------------------------------------------------------------------------
(* Python values as they sit in a result list: an int, a float (kept in    *)
(* milliseconds) or a str.                                                 *)

PyInt(n) == [t |-> "int", i |-> n, s |-> ""]
PyFloat(ms) == [t |-> "float", i |-> ms, s |-> ""]
PyStr(x) == [t |-> "str", i |-> 0, s |-> x]

Digit(d) == CASE d = 0 -> "0" [] d = 1 -> "1" [] d = 2 -> "2" [] d = 3 -> "3"
              [] d = 4 -> "4" [] d = 5 -> "5" [] d = 6 -> "6" [] d = 7 -> "7"
              [] d = 8 -> "8" [] d = 9 -> "9"

RECURSIVE IntToStr(_)
\* str(n) of a non-negative int
IntToStr(n) == IF n < 10 THEN Digit(n) ELSE IntToStr(n \div 10) \o Digit(n % 10)

\* str(x) of a float that round(x, 2) produced; ms is a multiple of 10
FloatToStr(ms) ==
    LET cs == ms \div 10
        whole == cs \div 100
        frac == cs % 100
    IN  IntToStr(whole) \o "." \o
        (IF frac % 10 = 0 THEN Digit(frac \div 10)
         ELSE Digit(frac \div 10) \o Digit(frac % 10))

\* round(x, 2) of a float kept in milliseconds
Round2(ms) == ((ms + 5) \div 10) * 10

\* int(x) of a float kept in milliseconds: whole seconds
IntOf(ms) == ms \div 1000

\* csv.writer turns every field into text
CsvField(v) == CASE v.t = "int" -> IntToStr(v.i)
                 [] v.t = "float" -> FloatToStr(v.i)
                 [] v.t = "str" -> v.s

CsvRow(row) == [k \in 1..Len(row) |-> CsvField(row[k])]

----------------------------------------------------------------------------
(* usefull/driver.py: the registry, and main.py's list of it.              *)

AvailableBrowserDrivers == <<"chrome", "firefox">>

drivers == AvailableBrowserDrivers

header == <<PyStr("Passed"), PyStr("Browser"), PyStr("Execution time"), PyStr("Error"),
            PyStr("Filename"), PyStr("Line"), PyStr("Function"), PyStr("Error code")>>

----------------------------------------------------------------------------
(* test_expandable.py: the statements of test_scenario, in order. `op` is  *)
(* the call the statement makes.                                           *)

Statement(l, o, c) == [line |-> l, op |-> o, code |-> c]

\* test_scenario with the click on the banner moved behind the switch back
\* to the parent frame: the element found inside the iframe is used outside.
test_scenario_click_after_frame_switch == <<
    Statement(21, "get", "driver.get(\"http://test.celtra.com/preview/f576e12f#overrides.deviceInfo.deviceType=Phone\")  # Hardcoded :("),
    Statement(27, "switch_to_iframe", "driver.switch_to_iframe_by_css_selector(selectors.expandable_iframe)"),
    Statement(29, "get_element", "banner_element = driver.get_element_by_css_selector(selectors.expendable_button)"),
    Statement(30, "assert_element", "assert banner_element  # Check if not None"),
    Statement(31, "assert_displayed", "assert banner_element.is_displayed()  # Check if displayed"),
    Statement(35, "parent_frame", "driver.switch_back_to_parent_frame()"),
    Statement(33, "click", "banner_element.click()"),
    Statement(36, "sleep", "time.sleep(1.5)  # Modal opening animation takes about 1.5s  (Should not take more)"),
    Statement(40, "switch_to_iframe", "driver.switch_to_iframe_by_css_selector(selectors.modal_iframe)"),
    Statement(42, "get_element", "modal_div_element = driver.get_element_by_css_selector(selectors.modal_div)"),
    Statement(43, "assert_displayed", "assert modal_div_element.is_displayed()"),
    Statement(46, "get_element", "celtra_logo = driver.get_element_by_css_selector(selectors.celtra_logo)"),
    Statement(47, "assert_element", "assert celtra_logo"),
    Statement(48, "assert_displayed", "assert celtra_logo.is_displayed()"),
    Statement(49, "click", "celtra_logo.click()"),
    Statement(51, "assert_displayed", "assert not celtra_logo.is_displayed()"),
    Statement(54, "get_element", "close_modal_button = driver.get_element_by_css_selector(selectors.close_modal_button)"),
    Statement(55, "assert_element", "assert close_modal_button"),
    Statement(57, "execute_script", "driver.execute_script('arguments[0].click()', close_modal_button)"),
    Statement(59, "assert_displayed", "assert not modal_div_element.is_displayed()") >>

test_scenario == <<
    Statement(21, "get", "driver.get(\"http://test.celtra.com/preview/f576e12f#overrides.deviceInfo.deviceType=Phone\")  # Hardcoded :("),
    Statement(27, "switch_to_iframe", "driver.switch_to_iframe_by_css_selector(selectors.expandable_iframe)"),
    Statement(29, "get_element", "banner_element = driver.get_element_by_css_selector(selectors.expendable_button)"),
    Statement(30, "assert_element", "assert banner_element  # Check if not None"),
    Statement(31, "assert_displayed", "assert banner_element.is_displayed()  # Check if displayed"),
    Statement(33, "click", "banner_element.click()"),
    Statement(35, "parent_frame", "driver.switch_back_to_parent_frame()"),
    Statement(36, "sleep", "time.sleep(1.5)  # Modal opening animation takes about 1.5s  (Should not take more)"),
    Statement(40, "switch_to_iframe", "driver.switch_to_iframe_by_css_selector(selectors.modal_iframe)"),
    Statement(42, "get_element", "modal_div_element = driver.get_element_by_css_selector(selectors.modal_div)"),
    Statement(43, "assert_displayed", "assert modal_div_element.is_displayed()"),
    Statement(46, "get_element", "celtra_logo = driver.get_element_by_css_selector(selectors.celtra_logo)"),
    Statement(47, "assert_element", "assert celtra_logo"),
    Statement(48, "assert_displayed", "assert celtra_logo.is_displayed()"),
    Statement(49, "click", "celtra_logo.click()"),
    Statement(51, "assert_displayed", "assert not celtra_logo.is_displayed()"),
    Statement(54, "get_element", "close_modal_button = driver.get_element_by_css_selector(selectors.close_modal_button)"),
    Statement(55, "assert_element", "assert close_modal_button"),
    Statement(57, "execute_script", "driver.execute_script('arguments[0].click()', close_modal_button)"),
    Statement(59, "assert_displayed", "assert not modal_div_element.is_displayed()") >>

\* The index in test_scenario of the statement that waits for the
\* expandable-ad trigger element (selectors.expendable_button).
TriggerStatement == CHOOSE k \in 1..Len(test_scenario) : test_scenario[k].line = 29

\* The type names of the exceptions a statement can raise: the waits raise
\* selenium's TimeoutException when WebDriverWait.until gives up, an assert
\* raises AssertionError, a command sent to the session raises a
\* WebDriverException. An element WebDriverWait.until returned is truthy, so
\* `assert element` does not raise; time.sleep does not raise.
Raises(op) ==
    CASE op \in {"switch_to_iframe", "get_element"} -> {"TimeoutException"}
      [] op = "assert_displayed" -> {"AssertionError", "WebDriverException"}
      [] op \in {"get", "click", "parent_frame", "execute_script"} -> {"WebDriverException"}
      [] op \in {"assert_element", "sleep"} -> {}

\* What a run of test_scenario can come to: step = 0, it ran to its end;
\* step = k, statement k raised an exception of type `kind`.
ScenarioOutcomes ==
    {[step |-> 0, kind |-> ""]} \cup
    UNION {{[step |-> k, kind |-> e] : e \in Raises(test_scenario[k].op)} :
           k \in 1..Len(test_scenario)}

----------------------------------------------------------------------------
(* Tracebacks: what traceback.extract_tb gives, outermost frame first.     *)

Frame(f, l, fn, c) == [filename |-> f, line |-> l, func |-> fn, line_code |-> c]

\* usefull/driver.py: BaseDriver.__wait_executor hands the wait to
\* selenium's WebDriverWait.until, which raises the TimeoutException.
wait_executor_frames ==
    << Frame("usefull/driver.py", 59, "__wait_executor", "element = WebDriverWait("),
       Frame("selenium/webdriver/support/wait.py", 80, "until",
             "raise TimeoutException(message, screen, stacktrace)") >>

\* A command the session rejects is raised by selenium's error handler.
command_error_frames ==
    << Frame("selenium/webdriver/remote/errorhandler.py", 242, "check_response",
             "raise exception_class(message, screen, stacktrace)") >>

\* The frames below test_scenario's own when statement `op` raises `kind`.
CalleeFrames(op, kind) ==
    CASE kind = "AssertionError" -> << >>
      [] kind = "TimeoutException" /\ op = "get_element" ->
            << Frame("usefull/driver.py", 84, "get_element_by_css_selector",
                     "element = self.__wait_executor(") >> \o wait_executor_frames
      [] kind = "TimeoutException" /\ op # "get_element" ->
            << Frame("usefull/driver.py", 98, "switch_to_iframe_by_css_selector",
                     "element = self.__wait_executor(") >> \o wait_executor_frames
      [] kind = "WebDriverException" /\ op = "parent_frame" ->
            << Frame("usefull/driver.py", 111, "switch_back_to_parent_frame",
                     "self.switch_to.parent_frame()") >> \o command_error_frames
      [] kind = "WebDriverException" /\ op # "parent_frame" -> command_error_frames

\* The traceback seen in test_expandable's except block when statement k of
\* test_scenario raised `kind`.
Traceback(k, kind) ==
    << Frame("test_expandable.py", 88, "test_expandable", "test_scenario(driver)"),
       Frame("test_expandable.py", test_scenario[k].line, "test_scenario",
             test_scenario[k].code) >>
    \o CalleeFrames(test_scenario[k].op, kind)

----------------------------------------------------------------------------
(* usefull/helpers.py *)

\* analyse_error reading the first entry of the traceback (the frame that
\* caught the exception) instead of the last.
analyse_error_first_entry(tb) ==
    LET first == tb[1]
    IN  << PyStr(first.filename), PyInt(first.line), PyStr(first.func), PyStr(first.line_code) >>


\* analyse_error reading the entry of test_scenario (the second of the
\* traceback), whatever was called below it.
analyse_error_scenario_entry(tb) ==
    LET entry == tb[2]
    IN  << PyStr(entry.filename), PyInt(entry.line), PyStr(entry.func), PyStr(entry.line_code) >>

\* analyse_error: [filename, line, function name, code] of the last entry
\* of the traceback of the exception being handled.
analyse_error(tb) ==
    LET last == tb[Len(tb)]
    IN  << PyStr(last.filename), PyInt(last.line), PyStr(last.func), PyStr(last.line_code) >>

\* create_csv_file without the os.path.isfile test, the file opened in
\* append mode: the header is written on every call.
create_csv_file_always_appends(exists, content, head) ==
    IF ~exists THEN << CsvRow(head) >> ELSE Append(content, CsvRow(head))

\* create_csv_file without the os.path.isfile test, the file opened in
\* write mode: the file is rewritten on every call.
create_csv_file_always_writes(exists, content, head) == << CsvRow(head) >>

\* create_csv_file: the rows of the file after the call. `exists` is
\* os.path.isfile(file_path), `content` the rows the file holds.
create_csv_file(exists, content, head) ==
    IF ~exists THEN << CsvRow(head) >> ELSE content

\* append_to_csv_file taking its argument for a single row's worth of
\* data: writer.writerow on the first element only.
append_to_csv_file_first_row(content, data) ==
    IF Len(data) = 0 THEN content ELSE Append(content, CsvRow(data[1]))

\* append_to_csv_file keeping the rows of the scenarios that passed.
append_to_csv_file_passed_rows(content, data) ==
    content \o [k \in 1..Len(SelectSeq(data, LAMBDA r : r[1] = PyInt(1))) |->
                    CsvRow(SelectSeq(data, LAMBDA r : r[1] = PyInt(1))[k])]

\* append_to_csv_file with a list of rows (type(data[0]) is list):
\* writer.writerows(data) on the file opened in append mode.
append_to_csv_file(content, data) ==
    content \o [k \in 1..Len(data) |-> CsvRow(data[k])]

----------------------------------------------------------------------------
(* usefull/helpers.py: TimeMeasure. The fields hold Python values; the     *)
(* clock readings are floats.                                              *)

\* TimeMeasure.__init__
TimeMeasure == [start_time |-> 0, end_time |-> 0, elapsed |-> PyInt(0)]

\* TimeMeasure.start at clock reading t
timer_start(tm, t) == [tm EXCEPT !.start_time = t]


\* The getter without its end_time test: it reads the running clock even
\* after the timer was stopped.
timer_read_running_clock(tm, t) == [tm EXCEPT !.elapsed = PyFloat(t - tm.start_time)]

\* The object after the elapsed_seconds getter ran at clock reading t
timer_read(tm, t) ==
    [tm EXCEPT !.elapsed = IF tm.end_time = 0 THEN PyFloat(t - tm.start_time)
                           ELSE PyFloat(tm.end_time - tm.start_time)]

\* The value the elapsed_seconds getter returns at clock reading t
elapsed_seconds(tm, t) == PyFloat(Round2(timer_read(tm, t).elapsed.i))

\* TimeMeasure.stop at clock reading t: sets end_time, stores the truncated
\* difference through the setter, then reads the property twice (for the
\* log line and for the return value)
timer_stop(tm, t) ==
    LET ended == [tm EXCEPT !.end_time = t]
        set == [ended EXCEPT !.elapsed = PyInt(IntOf(ended.end_time - ended.start_time))]
    IN  timer_read(timer_read(set, t), t)

----------------------------------------------------------------------------
(* test_expandable.py: the two lists test_expandable returns.              *)

\* line 91: return [0, driver.browser, timer.elapsed_seconds, type(e).__name__] + error_data
FailureRecord(browser, elapsed, kind, error_data) ==
    << PyInt(0), PyStr(browser), elapsed, PyStr(kind) >> \o error_data

\* The success list with the error column filled from str(None).
SuccessRecordWithErrorText(browser, elapsed) ==
    << PyInt(1), PyStr(browser), elapsed, PyStr("None"), PyStr(""), PyStr(""), PyStr(""), PyStr("") >>

\* line 95: return [1, driver.browser, timer.elapsed_seconds, "", "", "", "", ""]
SuccessRecord(browser, elapsed) ==
    << PyInt(1), PyStr(browser), elapsed, PyStr(""), PyStr(""), PyStr(""), PyStr(""), PyStr("") >>

\* `except AssertionError` in place of `except Exception`.
CatchesAssertionErrorOnly(kind) == kind = "AssertionError"

\* `except Exception` (line 89) catches every exception type the
\* statements of the scenario raise.
Catches(kind) == kind \in {"TimeoutException", "AssertionError", "WebDriverException"}

\* test_expandable as one step: the list the invocation returns when the
\* scenario comes to outcome o, the timer having started at clock reading
\* t0 and the scenario having ended at t1.
test_expandable(browser, o, t0, t1) ==
    LET tm == timer_start(TimeMeasure, t0)
    IN  IF o.step = 0
        THEN SuccessRecord(browser, elapsed_seconds(timer_stop(tm, t1), t1))
        ELSE FailureRecord(browser, elapsed_seconds(tm, t1), o.kind,
                           analyse_error(Traceback(o.step, o.kind)))

----------------------------------------------------------------------------
(* The harness: main.py.                                                   *)

Workers == 1..Len(drivers)

\* The outcomes and clock readings the pool workers of the harness draw
\* from: the scenario passes, or times out on the trigger element.
BatchOutcomes == {o \in ScenarioOutcomes : o.step = 0 \/ o.step = TriggerStatement}
StartClock == 1000
BatchClocks == {StartClock + 2504}

DataRows == IF fileExists THEN Len(file) - 1 ELSE 0

HarnessInit ==
    /\ runs = 0
    /\ mainPc = "idle"
    /\ repeat = 0
    /\ iter = 0
    /\ fileExists = FALSE
    /\ file = << >>
    /\ rowsBefore = 0
    /\ requested = 0
    /\ wpc = [w \in Workers |-> "none"]
    /\ wres = [w \in Workers |-> << >>]
    /\ finishOrder = << >>
    /\ res = << >>

\* `python main.py`: main(repeat=n) is called; lines 25-27 compute the
\* file name and the header.
StartMain(n) ==
    /\ mainPc \in {"idle", "done", "aborted"}
    /\ runs < MaxRuns
    /\ requested + n <= MaxTotalRepeat
    /\ runs' = runs + 1
    /\ requested' = requested + n
    /\ repeat' = n
    /\ iter' = 0
    /\ rowsBefore' = DataRows
    /\ wpc' = [w \in Workers |-> "none"]
    /\ wres' = [w \in Workers |-> << >>]
    /\ finishOrder' = << >>
    /\ res' = << >>
    /\ mainPc' = "create"
    /\ UNCHANGED <<fileExists, file>>
    /\ UNCHANGED recorderVars
    /\ UNCHANGED driverVars

\* line 29: create_csv_file(filename, header)
MainCreate ==
    /\ mainPc = "create"
    /\ file' = create_csv_file(fileExists, file, header)
    /\ fileExists' = TRUE
    /\ mainPc' = "loop"
    /\ UNCHANGED <<runs, repeat, iter, rowsBefore, requested, wpc, wres, finishOrder, res>>
    /\ UNCHANGED recorderVars
    /\ UNCHANGED driverVars


\* The loop written as range(repeat + 1): one iteration more than asked.
MainDispatchOffByOne ==
    /\ mainPc = "loop"
    /\ iter <= repeat
    /\ wpc' = [w \in Workers |-> "pending"]
    /\ wres' = [w \in Workers |-> << >>]
    /\ finishOrder' = << >>
    /\ res' = << >>
    /\ mainPc' = "collect"
    /\ UNCHANGED <<runs, repeat, iter, fileExists, file, rowsBefore, requested>>
    /\ UNCHANGED recorderVars
    /\ UNCHANGED driverVars

\* lines 31-33: another iteration of the for loop: the pool is created and
\* executor.map submits one call of test_expandable per driver.
MainDispatch ==
    /\ mainPc = "loop"
    /\ iter < repeat
    /\ wpc' = [w \in Workers |-> "pending"]
    /\ wres' = [w \in Workers |-> << >>]
    /\ finishOrder' = << >>
    /\ res' = << >>
    /\ mainPc' = "collect"
    /\ UNCHANGED <<runs, repeat, iter, fileExists, file, rowsBefore, requested>>
    /\ UNCHANGED recorderVars
    /\ UNCHANGED driverVars

\* line 31: range(repeat) is exhausted, main returns.
MainReturn ==
    /\ mainPc = "loop"
    /\ iter >= repeat
    /\ mainPc' = "done"
    /\ UNCHANGED <<runs, repeat, iter, fileExists, file, rowsBefore, requested,
                   wpc, wres, finishOrder, res>>
    /\ UNCHANGED recorderVars
    /\ UNCHANGED driverVars

\* A pool process takes call w and test_expandable constructs the driver
\* (test_expandable.py line 84); a constructor that raises ends the call
\* with that exception.
WorkerStart(w) ==
    /\ wpc[w] = "pending"
    /\ \/ /\ wpc' = [wpc EXCEPT ![w] = "running"]
          /\ UNCHANGED finishOrder
       \/ /\ wpc' = [wpc EXCEPT ![w] = "construct_error"]
          /\ finishOrder' = Append(finishOrder, w)
    /\ UNCHANGED <<runs, mainPc, repeat, iter, fileExists, file, rowsBefore, requested,
                   wres, res>>
    /\ UNCHANGED recorderVars
    /\ UNCHANGED driverVars


\* test_expandable appending its own row to the log before it returns.
WorkerFinishWritesRow(w) ==
    /\ wpc[w] = "running"
    /\ \E o \in BatchOutcomes, t1 \in BatchClocks :
          /\ wres' = [wres EXCEPT ![w] = test_expandable(drivers[w], o, StartClock, t1)]
          /\ file' = Append(file, CsvRow(wres'[w]))
    /\ wpc' = [wpc EXCEPT ![w] = "returned"]
    /\ finishOrder' = Append(finishOrder, w)
    /\ UNCHANGED <<runs, mainPc, repeat, iter, fileExists, rowsBefore, requested, res>>
    /\ UNCHANGED recorderVars
    /\ UNCHANGED driverVars

\* The rest of call w (test_expandable.py lines 85-95): the scenario comes
\* to some outcome and the call returns its list, or ends with the
\* exception the except clause did not catch.
WorkerFinish(w) ==
    /\ wpc[w] = "running"
    /\ \E o \in BatchOutcomes, t1 \in BatchClocks :
          IF o.step = 0 \/ Catches(o.kind)
          THEN /\ wres' = [wres EXCEPT ![w] = test_expandable(drivers[w], o, StartClock, t1)]
               /\ wpc' = [wpc EXCEPT ![w] = "returned"]
          ELSE /\ wpc' = [wpc EXCEPT ![w] = "scenario_error"]
               /\ UNCHANGED wres
    /\ finishOrder' = Append(finishOrder, w)
    /\ UNCHANGED <<runs, mainPc, repeat, iter, fileExists, file, rowsBefore, requested, res>>
    /\ UNCHANGED recorderVars
    /\ UNCHANGED driverVars

\* The results taken as the calls complete (futures.as_completed) instead
\* of in the order of map's argument.
NextCompleted ==
    IF Len(finishOrder) > Len(res) THEN finishOrder[Len(res) + 1] ELSE Len(res) + 1

\* The call whose result list(executor.map(...)) takes next: map yields
\* the results in the order of its argument.
NextCollected == Len(res) + 1

\* line 33: list(...) takes the next result, waiting until that call has
\* finished; with the last one taken the list is complete.
MainCollect ==
    /\ mainPc = "collect"
    /\ NextCollected \in Workers
    /\ wpc[NextCollected] = "returned"
    /\ res' = Append(res, wres[NextCollected])
    /\ mainPc' = IF Len(res') = Len(drivers) THEN "append" ELSE "collect"
    /\ UNCHANGED <<runs, repeat, iter, fileExists, file, rowsBefore, requested,
                   wpc, wres, finishOrder>>
    /\ UNCHANGED recorderVars
    /\ UNCHANGED driverVars

\* line 33: the next call ended with an exception: the result iterator
\* re-raises it in main and cancels the calls it can still cancel (those no
\* pool process has taken).
MainCollectRaise ==
    /\ mainPc = "collect"
    /\ NextCollected \in Workers
    /\ wpc[NextCollected] \in {"construct_error", "scenario_error"}
    /\ \E C \in SUBSET {w \in Workers : wpc[w] = "pending"} :
          wpc' = [w \in Workers |-> IF w \in C THEN "cancelled" ELSE wpc[w]]
    /\ mainPc' = "unwind"
    /\ UNCHANGED <<runs, repeat, iter, fileExists, file, rowsBefore, requested,
                   wres, finishOrder, res>>
    /\ UNCHANGED recorderVars
    /\ UNCHANGED driverVars


\* The results collected so far appended while the exception propagates.
MainUnwindAppendsPartial ==
    /\ mainPc = "unwind"
    /\ \A w \in Workers :
          wpc[w] \in {"returned", "construct_error", "scenario_error", "cancelled"}
    /\ file' = IF res = << >> THEN file ELSE append_to_csv_file(file, res)
    /\ mainPc' = "aborted"
    /\ UNCHANGED <<runs, repeat, iter, fileExists, rowsBefore, requested,
                   wpc, wres, finishOrder, res>>
    /\ UNCHANGED recorderVars
    /\ UNCHANGED driverVars

\* line 32: leaving the with block while the exception propagates:
\* executor.shutdown(wait=True) returns once every call has ended, and the
\* exception leaves main.
MainUnwind ==
    /\ mainPc = "unwind"
    /\ \A w \in Workers :
          wpc[w] \in {"returned", "construct_error", "scenario_error", "cancelled"}
    /\ mainPc' = "aborted"
    /\ UNCHANGED <<runs, repeat, iter, fileExists, file, rowsBefore, requested,
                   wpc, wres, finishOrder, res>>
    /\ UNCHANGED recorderVars
    /\ UNCHANGED driverVars


\* The append moved out of the loop: the iteration ends with nothing
\* written.
MainAppendDeferred ==
    /\ mainPc = "append"
    /\ iter' = iter + 1
    /\ mainPc' = "loop"
    /\ UNCHANGED <<runs, repeat, fileExists, file, rowsBefore, requested, wpc, wres,
                   finishOrder, res>>
    /\ UNCHANGED recorderVars
    /\ UNCHANGED driverVars

\* line 34: append_to_csv_file(filename, res), then the with block is left
\* (every call has ended) and the loop goes on.
MainAppend ==
    /\ mainPc = "append"
    /\ file' = append_to_csv_file(file, res)
    /\ iter' = iter + 1
    /\ mainPc' = "loop"
    /\ UNCHANGED <<runs, repeat, fileExists, rowsBefore, requested, wpc, wres, finishOrder, res>>
    /\ UNCHANGED recorderVars
    /\ UNCHANGED driverVars

----------------------------------------------------------------------------
(* One invocation of test_expandable, statement by statement.              *)

NoException == [kind |-> "", step |-> 0, tb |-> << >>]
NoDriver == [browser |-> "", session |-> "none", frame |-> 0, context |-> 0, closeCalls |-> 0]

\* The element variables of test_scenario; -1: not assigned yet.
ElementNames == {"banner_element", "modal_div_element", "celtra_logo", "close_modal_button"}
NoElements == [e \in ElementNames |-> -1]

NoHistory == [openedAt |-> 0, closedAt |-> 0, stopValue |-> PyInt(0), staleUse |-> FALSE]

\* The time a statement can take, in milliseconds.
StepDurations == {704, 1500}

RecorderInit ==
    /\ pc = "idle"
    /\ driver_class = ""
    /\ driver = NoDriver
    /\ timer = TimeMeasure
    /\ now = StartClock
    /\ stmt = 0
    /\ exc = NoException
    /\ retval = << >>
    /\ result = << >>
    /\ elements = NoElements
    /\ hist = NoHistory

\* The session after a statement of the scenario ran: the frame switches
\* move the frame context, the other calls leave it.
session_after(d, op) ==
    CASE op = "switch_to_iframe" -> [d EXCEPT !.frame = @ + 1, !.context = @ + 1]
      [] op = "parent_frame" -> [d EXCEPT !.frame = IF @ > 0 THEN @ - 1 ELSE 0,
                                          !.context = @ + 1]
      [] OTHER -> d

\* The element variable statement k of test_scenario assigns or uses.
statement_element(k) ==
    LET l == test_scenario[k].line
    IN  CASE l \in {29, 30, 31, 33} -> "banner_element"
          [] l \in {42, 43, 59} -> "modal_div_element"
          [] l \in {46, 47, 48, 49, 51} -> "celtra_logo"
          [] l \in {54, 55, 57} -> "close_modal_button"
          [] OTHER -> ""

\* Statement k calls a method of its element or hands it to the session
\* (is_displayed, click, execute_script); `assert element` only tests the
\* variable.
uses_element(k) ==
    /\ statement_element(k) # ""
    /\ test_scenario[k].op \in {"assert_displayed", "click", "execute_script"}

\* The element variables after statement k ran in session d: a wait that
\* found its element binds the variable in the current frame context.
elements_after(els, d, k) ==
    IF test_scenario[k].op = "get_element"
    THEN [els EXCEPT ![statement_element(k)] = d.context]
    ELSE els

\* Statement k, run in session d, uses its element in another frame
\* context than the one the element was found in.
stale_use(els, d, k) == uses_element(k) /\ els[statement_element(k)] # d.context

\* What TimeMeasure.stop returns at clock reading t: its last statement is
\* `return self.elapsed_seconds`.
timer_stop_returns(tm, t) == elapsed_seconds(timer_stop(tm, t), t)

\* driver.close(): the session is released.
driver_close(d) == [d EXCEPT !.session = "closed", !.closeCalls = @ + 1]

\* The wall clock moves on while the invocation runs.
Tick ==
    /\ pc \notin {"idle", "returned", "propagated"}
    /\ \E d \in StepDurations :
          /\ now + d <= StartClock + MaxSeconds * 1000
          /\ now' = now + d
    /\ UNCHANGED <<pc, driver_class, driver, timer, stmt, exc, retval, result>>
    /\ UNCHANGED harnessVars
    /\ UNCHANGED <<elements, hist>>
    /\ UNCHANGED driverVars

\* A pool process calls test_expandable(cls).
Invoke(cls) ==
    /\ pc = "idle"
    /\ driver_class' = cls
    /\ pc' = "construct"
    /\ UNCHANGED <<driver, timer, now, stmt, exc, retval, result>>
    /\ UNCHANGED harnessVars
    /\ UNCHANGED <<elements, hist>>
    /\ UNCHANGED driverVars


\* The constructor call placed inside the try statement: what it raises
\* is caught by `except Exception` like a failure of the scenario.
ConstructInsideTry ==
    /\ pc = "construct"
    /\ \/ /\ driver' = [browser |-> driver_class, session |-> "open",
                        frame |-> 0, context |-> 0, closeCalls |-> 0]
          /\ hist' = [hist EXCEPT !.openedAt = now]
          /\ pc' = "start"
          /\ UNCHANGED exc
       \/ /\ exc' = [kind |-> "WebDriverException", step |-> 0,
                     tb |-> << Frame("test_expandable.py", 84, "test_expandable",
                                     "driver = driver_class(user_agent=user_agent)") >>]
          /\ pc' = "except"
          /\ UNCHANGED <<driver, hist>>
    /\ UNCHANGED <<driver_class, timer, now, stmt, retval, result>>
    /\ UNCHANGED harnessVars
    /\ UNCHANGED <<elements>>
    /\ UNCHANGED driverVars

\* lines 83-84: driver = driver_class(user_agent=user_agent). The
\* constructor starts a browser session or raises; nothing in
\* test_expandable catches what it raises.
Construct ==
    /\ pc = "construct"
    /\ \/ /\ driver' = [browser |-> driver_class, session |-> "open",
                        frame |-> 0, context |-> 0, closeCalls |-> 0]
          /\ hist' = [hist EXCEPT !.openedAt = now]
          /\ pc' = "start"
       \/ /\ pc' = "propagated"
          /\ UNCHANGED <<driver, hist>>
    /\ UNCHANGED <<driver_class, timer, now, stmt, exc, retval, result>>
    /\ UNCHANGED harnessVars
    /\ UNCHANGED <<elements>>
    /\ UNCHANGED driverVars

\* lines 85-86: timer = TimeMeasure(); timer.start()
StartTimer ==
    /\ pc = "start"
    /\ timer' = timer_start(TimeMeasure, now)
    /\ stmt' = 1
    /\ pc' = "scenario"
    /\ UNCHANGED <<driver_class, driver, now, exc, retval, result>>
    /\ UNCHANGED harnessVars
    /\ UNCHANGED <<elements, hist>>
    /\ UNCHANGED driverVars

\* line 88, test_scenario(driver): the next statement of the scenario runs
\* to its end; after the last one the try block is left normally.
ScenarioStep ==
    /\ pc = "scenario"
    /\ driver' = session_after(driver, test_scenario[stmt].op)
    /\ stmt' = stmt + 1
    /\ pc' = IF stmt = Len(test_scenario) THEN "stop" ELSE "scenario"
    /\ UNCHANGED <<driver_class, timer, now, exc, retval, result>>
    /\ UNCHANGED harnessVars
    /\ elements' = elements_after(elements, driver, stmt)
    /\ hist' = [hist EXCEPT !.staleUse = @ \/ stale_use(elements, driver, stmt)]
    /\ UNCHANGED driverVars

\* line 88, test_scenario(driver): the next statement raises. A caught
\* exception enters the except block; any other goes to the finally block
\* on its way out of test_expandable.
ScenarioRaise ==
    /\ pc = "scenario"
    /\ \E kind \in Raises(test_scenario[stmt].op) :
          /\ exc' = [kind |-> kind, step |-> stmt, tb |-> Traceback(stmt, kind)]
          /\ pc' = IF Catches(kind) THEN "except" ELSE "stop"
    /\ UNCHANGED <<driver_class, driver, timer, now, stmt, retval, result>>
    /\ UNCHANGED harnessVars
    /\ hist' = [hist EXCEPT !.staleUse = @ \/ stale_use(elements, driver, stmt)]
    /\ UNCHANGED elements
    /\ UNCHANGED driverVars


\* The except block handing its list back at once, with no finally block
\* to run before the return.
ExceptBlockReturnsAtOnce ==
    /\ pc = "except"
    /\ retval' = FailureRecord(driver.browser, elapsed_seconds(timer, now), exc.kind,
                               analyse_error(exc.tb))
    /\ result' = retval'
    /\ timer' = timer_read(timer, now)
    /\ pc' = "returned"
    /\ UNCHANGED <<driver_class, driver, now, stmt, exc>>
    /\ UNCHANGED harnessVars
    /\ UNCHANGED <<elements, hist>>
    /\ UNCHANGED driverVars

\* lines 89-91: error_data = analyse_error(output=True), and the return
\* statement builds its list; reading timer.elapsed_seconds stores the
\* difference in the timer. The finally block runs before the return.
ExceptBlock ==
    /\ pc = "except"
    /\ retval' = FailureRecord(driver.browser, elapsed_seconds(timer, now), exc.kind,
                               analyse_error(exc.tb))
    /\ timer' = timer_read(timer, now)
    /\ pc' = "stop"
    /\ UNCHANGED <<driver_class, driver, now, stmt, exc, result>>
    /\ UNCHANGED harnessVars
    /\ UNCHANGED <<elements, hist>>
    /\ UNCHANGED driverVars

\* line 93: timer.stop()
FinallyStop ==
    /\ pc = "stop"
    /\ timer' = timer_stop(timer, now)
    /\ pc' = "close"
    /\ UNCHANGED <<driver_class, driver, now, stmt, exc, retval, result>>
    /\ UNCHANGED harnessVars
    /\ hist' = [hist EXCEPT !.stopValue = timer_stop_returns(timer, now)]
    /\ UNCHANGED elements
    /\ UNCHANGED driverVars

\* driver.close() placed after the try statement instead of in its finally
\* block: the return statement of the except block leaves before it.
CloseAfterTryStatement ==
    /\ pc = "close"
    /\ IF retval # << >>
       THEN /\ result' = retval
            /\ pc' = "returned"
            /\ UNCHANGED driver
       ELSE /\ driver' = driver_close(driver)
            /\ pc' = IF exc.kind # "" THEN "propagated" ELSE "return"
            /\ UNCHANGED result
    /\ UNCHANGED <<driver_class, timer, now, stmt, exc, retval>>
    /\ UNCHANGED harnessVars
    /\ hist' = IF retval # << >> THEN hist ELSE [hist EXCEPT !.closedAt = now]
    /\ UNCHANGED elements
    /\ UNCHANGED driverVars

\* The success return statement placed inside the finally block: it
\* replaces the list the except block was about to return.
FinallyCloseThenReturnSuccess ==
    /\ pc = "close"
    /\ driver' = driver_close(driver)
    /\ result' = SuccessRecord(driver.browser, elapsed_seconds(timer, now))
    /\ pc' = "returned"
    /\ UNCHANGED <<driver_class, timer, now, stmt, exc, retval>>
    /\ UNCHANGED harnessVars
    /\ hist' = [hist EXCEPT !.closedAt = now]
    /\ UNCHANGED elements
    /\ UNCHANGED driverVars

\* line 94: driver.close() ends the finally block: a waiting return
\* statement then returns its list, an exception nobody caught goes on to
\* the caller, and otherwise line 95 is next.
FinallyClose ==
    /\ pc = "close"
    /\ driver' = driver_close(driver)
    /\ IF retval # << >>
       THEN /\ result' = retval
            /\ pc' = "returned"
       ELSE /\ pc' = IF exc.kind # "" THEN "propagated" ELSE "return"
            /\ UNCHANGED result
    /\ UNCHANGED <<driver_class, timer, now, stmt, exc, retval>>
    /\ UNCHANGED harnessVars
    /\ hist' = [hist EXCEPT !.closedAt = now]
    /\ UNCHANGED elements
    /\ UNCHANGED driverVars

\* line 95: return [1, driver.browser, timer.elapsed_seconds, "", "", "", "", ""]
ReturnSuccess ==
    /\ pc = "return"
    /\ result' = SuccessRecord(driver.browser, elapsed_seconds(timer, now))
    /\ timer' = timer_read(timer, now)
    /\ pc' = "returned"
    /\ UNCHANGED <<driver_class, driver, now, stmt, exc, retval>>
    /\ UNCHANGED harnessVars
    /\ UNCHANGED <<elements, hist>>
    /\ UNCHANGED driverVars

----------------------------------------------------------------------------
(* usefull/driver.py: the constructors of ChromeDriver and FirefoxDriver.  *)

AvailableUserAgents ==
    << "Mozilla/5.0 (iPhone; U; CPU iPhone OS 3_0 like Mac OS X; en-us) AppleWebKit/528.18 (KHTML, like Gecko) Version/4.0 Mobile/7A341 Safari/528.16" >>

\* A selenium Options object: its command line arguments and preferences.
Options == [given |-> TRUE, arguments |-> << >>, preferences |-> << >>]

\* options=None
NoOptions == [given |-> FALSE, arguments |-> << >>, preferences |-> << >>]

\* The options objects a caller hands to a constructor.
CallerOptions ==
    { Options,
      [Options EXCEPT !.arguments = << "--no-sandbox" >>],
      [Options EXCEPT !.arguments = << "headless" >>] }

add_argument(o, a) == [o EXCEPT !.arguments = Append(@, a)]
set_preference(o, k, v) == [o EXCEPT !.preferences = Append(@, <<k, v>>)]

\* ChromeDriver.headless setter (lines 161-169)
chrome_headless(o, is_headless) ==
    IF is_headless
    THEN add_argument(add_argument(o, "headless"), "--window-size=1920,1080")
    ELSE o

\* ChromeDriver.user_agent setter (lines 175-178); None is the empty string
chrome_user_agent(o, agent) ==
    IF agent # "" THEN add_argument(o, "--user-agent=" \o agent) ELSE o

\* FirefoxDriver.headless setter (lines 222-229)
firefox_headless(o, is_headless) ==
    IF is_headless THEN add_argument(o, "headless") ELSE o

\* FirefoxDriver.user_agent setter (lines 235-238)
firefox_user_agent(o, agent) ==
    IF agent # "" THEN set_preference(o, "general.useragent.override", agent) ELSE o

\* self.options after lines 146-151 of ChromeDriver.__init__
ChromeDriver_options(headless, user_agent, options) ==
    IF options.given
    THEN options
    ELSE chrome_headless(chrome_user_agent(Options, user_agent), headless)

\* self.options after lines 207-212 of FirefoxDriver.__init__
FirefoxDriver_options(headless, user_agent, options) ==
    IF options.given
    THEN options
    ELSE firefox_user_agent(firefox_headless(Options, headless), user_agent)

\* The default of implicit_wait, in seconds.
default_implicit_wait(cls) == IF cls = "chrome" THEN 10 ELSE 15

NoCall == [pc |-> "idle", cls |-> "", headless |-> FALSE, user_agent |-> "",
           options_arg |-> NoOptions, implicit_wait |-> 0,
           browser |-> "", options |-> NoOptions, session |-> NoOptions,
           wait |-> 0, window_size |-> << >>, window |-> << >>]

DriverInit == ctor = NoCall

\* cls(headless=h, user_agent=ua, options=o, implicit_wait=w) is called.
CtorCall(cls, h, ua, o, w) ==
    /\ ctor.pc = "idle"
    /\ ctor' = [ctor EXCEPT !.pc = "init", !.cls = cls, !.headless = h, !.user_agent = ua,
                            !.options_arg = o, !.implicit_wait = w]
    /\ UNCHANGED harnessVars
    /\ UNCHANGED recorderVars

\* lines 145-151 (chrome), 206-212 (firefox): the browser tag and
\* self.options; firefox's headless setter also stores self.window_size
\* (line 226).
CtorOptions ==
    /\ ctor.pc = "init"
    /\ ctor' = [ctor EXCEPT
          !.pc = "super",
          !.browser = ctor.cls,
          !.options = IF ctor.cls = "chrome"
                      THEN ChromeDriver_options(ctor.headless, ctor.user_agent, ctor.options_arg)
                      ELSE FirefoxDriver_options(ctor.headless, ctor.user_agent, ctor.options_arg),
          !.window_size = IF ctor.cls = "firefox" /\ ~ctor.options_arg.given /\ ctor.headless
                          THEN <<1920, 1080>>
                          ELSE << >>]
    /\ UNCHANGED harnessVars
    /\ UNCHANGED recorderVars

\* lines 154 (chrome), 214 (firefox): super().__init__(..., options=self.options)
\* starts the session with these options, or raises.
CtorSuper ==
    /\ ctor.pc = "super"
    /\ \/ ctor' = [ctor EXCEPT !.pc = "wait", !.session = ctor.options]
       \/ ctor' = [ctor EXCEPT !.pc = "raised"]
    /\ UNCHANGED harnessVars
    /\ UNCHANGED recorderVars

\* lines 155 (chrome), 215-216 (firefox): self.implicitly_wait(implicit_wait),
\* and firefox's self.set_window_size(360, 640).
CtorFinish ==
    /\ ctor.pc = "wait"
    /\ ctor' = [ctor EXCEPT !.pc = "done",
                            !.wait = ctor.implicit_wait,
                            !.window = IF ctor.cls = "firefox" THEN <<360, 640>> ELSE << >>]
    /\ UNCHANGED harnessVars
    /\ UNCHANGED recorderVars

----------------------------------------------------------------------------
(* Specifications. *)

Init == HarnessInit /\ RecorderInit /\ DriverInit

\* The harness: main and the calls of its pool.
Next ==
    \/ \E n \in 0..MaxRepeat : StartMain(n)
    \/ MainCreate
    \/ MainDispatch
    \/ MainReturn
    \/ \E w \in Workers : WorkerStart(w)
    \/ \E w \in Workers : WorkerFinish(w)
    \/ MainCollect
    \/ MainCollectRaise
    \/ MainUnwind
    \/ MainAppend

Spec == Init /\ [][Next]_vars

\* One invocation of test_expandable.
RecorderNext ==
    \/ \E cls \in {drivers[w] : w \in Workers} : Invoke(cls)
    \/ Construct
    \/ StartTimer
    \/ ScenarioStep
    \/ ScenarioRaise
    \/ ExceptBlock
    \/ FinallyStop
    \/ FinallyClose
    \/ ReturnSuccess
    \/ Tick

RecorderSpec == Init /\ [][RecorderNext]_vars

\* One call of a driver class constructor.
DriverNext ==
    \/ \E cls \in {drivers[w] : w \in Workers}, h \in BOOLEAN,
          ua \in {"", AvailableUserAgents[1]}, o \in {NoOptions} \cup CallerOptions,
          w \in {default_implicit_wait(c) : c \in {"chrome", "firefox"}} :
          CtorCall(cls, h, ua, o, w)
    \/ CtorOptions
    \/ CtorSuper
    \/ CtorFinish

DriverSpec == Init /\ [][DriverNext]_vars

\* The harness under the scheduling the operating system gives it: main
\* and every pool process keep taking their steps.
FairSpec ==
    /\ Spec
    /\ WF_vars(MainCreate) /\ WF_vars(MainDispatch) /\ WF_vars(MainReturn)
    /\ WF_vars(MainCollect) /\ WF_vars(MainCollectRaise) /\ WF_vars(MainUnwind)
    /\ WF_vars(MainAppend)
    /\ \A w \in Workers : WF_vars(WorkerStart(w)) /\ WF_vars(WorkerFinish(w))

----------------------------------------------------------------------------
(* Properties of the harness (Spec, FairSpec).                             *)

\* The browser column of the rows the current run has appended so far.
BrowserOfRow(k) == file[1 + rowsBefore + k][2]

\* C1: a run of main(N) that completes has appended exactly N * B data
\* rows to the rows the file held when it started, one row for each
\* (iteration, backend) pair.
CompletedRunAppendsRepeatTimesBackends ==
    mainPc = "done" =>
        /\ DataRows = rowsBefore + repeat * Len(drivers)
        /\ \A i \in 1..repeat : \A j \in Workers :
              BrowserOfRow((i - 1) * Len(drivers) + j) = drivers[j]

\* Witness of C1: a run with repeat = 2 has completed on a file that
\* already held data rows.
WitnessSecondRunOfTwoIterationsDone ==
    /\ mainPc = "done"
    /\ repeat = 2
    /\ rowsBefore > 0
    /\ DataRows = rowsBefore + 2 * Len(drivers)

\* C2: the batch of an iteration is appended in the order the backends are
\* registered, in whatever order the calls finished.
BatchAppendedInRegistrationOrder ==
    [][mainPc = "append" =>
          /\ Len(file') = Len(file) + Len(drivers)
          /\ \A j \in Workers : file'[Len(file) + j][2] = drivers[j]]_vars

\* Witness of C2: the firefox call finished before the chrome call and the
\* batch has been appended, chrome's row first.
WitnessFirefoxFinishedFirst ==
    /\ finishOrder = <<2, 1>>
    /\ mainPc = "loop"
    /\ iter >= 1
    /\ file[Len(file) - 1][2] = "chrome"
    /\ file[Len(file)][2] = "firefox"

\* C3: once the file exists, the header row is its first row and appears
\* in it exactly once, however many runs have touched the file.
HeaderOnceAndFirst ==
    fileExists =>
        /\ Len(file) >= 1
        /\ file[1] = CsvRow(header)
        /\ Cardinality({k \in 1..Len(file) : file[k] = CsvRow(header)}) = 1

\* Witness of C3: a second run has passed create_csv_file on a file that
\* held the header and data rows, and has appended a batch of its own.
WitnessSecondRunOnExistingFile ==
    /\ runs = 2
    /\ rowsBefore > 0
    /\ mainPc = "loop"
    /\ iter = 1

\* C4: the file is append-only: a file that exists keeps existing, and
\* what it held is a prefix of what it holds after every step.
FileAppendOnly ==
    [][fileExists =>
          /\ fileExists'
          /\ Len(file') >= Len(file)
          /\ SubSeq(file', 1, Len(file)) = file]_vars

\* Witness of C4: the second run is at create_csv_file with the file
\* holding rows of the first run.
WitnessCreateOnFileWithRows ==
    /\ runs = 2
    /\ mainPc = "create"
    /\ fileExists
    /\ Len(file) > 1

\* C9: failed scenarios do not fail the run. Main is never unwinding or
\* aborted unless a driver constructor raised; a complete batch is appended
\* whole, failed rows included, and the loop goes on; with the iterations
\* used up main returns; and a batch whose calls have all returned is
\* appended, after the last one main ends normally.
FailedScenariosDoNotFailRun ==
    /\ [](mainPc \in {"unwind", "aborted"} =>
             \E w \in Workers : wpc[w] = "construct_error")
    /\ [][mainPc = "append" =>
             /\ \A w \in Workers : wpc[w] = "returned"
             /\ file' = file \o [k \in Workers |-> CsvRow(wres[k])]
             /\ iter' = iter + 1
             /\ mainPc' = "loop"]_vars
    /\ [][mainPc = "loop" /\ iter = repeat => mainPc' = "done"]_vars
    /\ ((mainPc = "collect" /\ \A w \in Workers : wpc[w] = "returned")
            ~> (mainPc = "loop"))
    /\ ((mainPc = "loop" /\ iter = repeat) ~> (mainPc = "done"))

\* Witness of C9: a run of two iterations has ended normally and both of
\* its batches hold a failed row next to a passed one.
WitnessRunWithFailedRowsDone ==
    /\ mainPc = "done"
    /\ repeat = 2
    /\ DataRows = rowsBefore + 4
    /\ file[1 + rowsBefore + 1][1] = "0"
    /\ file[1 + rowsBefore + 2][1] = "1"
    /\ file[1 + rowsBefore + 3][1] = "1"
    /\ file[1 + rowsBefore + 4][1] = "0"

----------------------------------------------------------------------------
(* Properties of one invocation of test_expandable (RecorderSpec).         *)

\* C5: driver.close() has been called exactly once when test_expandable
\* returns its list, on the success path and on the failure path; it is
\* never called before the finally block nor a second time.
CloseCalledExactlyOnce ==
    /\ pc = "returned" => driver.closeCalls = 1
    /\ pc \in {"start", "scenario", "except", "stop", "close"} => driver.closeCalls = 0
    /\ driver.closeCalls <= 1

\* Witness of C5: the invocation has returned on the failure path with one
\* call of close.
WitnessFailurePathClosedOnce ==
    /\ pc = "returned"
    /\ exc.kind # ""
    /\ driver.closeCalls = 1

\* C6: when test_scenario ran all its statements without raising, the list
\* returned is [1, browser, elapsed, "", "", "", "", ""].
PassedScenarioYieldsSuccessRecord ==
    (pc \in {"returned", "propagated"} /\ driver.session # "none" /\ exc.kind = "") =>
        /\ pc = "returned"
        /\ stmt = Len(test_scenario) + 1
        /\ Len(result) = 8
        /\ result[1] = PyInt(1)
        /\ result[2] = PyStr(driver_class)
        /\ result[3].t = "float"
        /\ \A k \in 4..8 : result[k] = PyStr("")

\* Witness of C6: the scenario ran to its end on firefox and the list has
\* been returned.
WitnessPassedScenarioReturned ==
    /\ pc = "returned"
    /\ exc.kind = ""
    /\ stmt = Len(test_scenario) + 1
    /\ driver_class = "firefox"
    /\ result[1] = PyInt(1)

\* C7: when a statement of test_scenario raised, whichever statement it
\* was, the invocation ends by returning a list with passed = 0, the type
\* name of the exception, and non-empty file, line, function and statement.
RaisedScenarioYieldsFailureRecord ==
    (pc \in {"returned", "propagated"} /\ exc.kind # "") =>
        /\ pc = "returned"
        /\ Len(result) = 8
        /\ result[1] = PyInt(0)
        /\ result[2] = PyStr(driver_class)
        /\ result[4] = PyStr(exc.kind)
        /\ result[5].t = "str" /\ result[5].s # ""
        /\ result[6].t = "int" /\ result[6].i > 0
        /\ result[7].t = "str" /\ result[7].s # ""
        /\ result[8].t = "str" /\ result[8].s # ""

\* Witness of C7: the last statement of the scenario failed its assertion
\* and the failed list has been returned.
WitnessLastStatementFailedReturned ==
    /\ pc = "returned"
    /\ exc.step = Len(test_scenario)
    /\ exc.kind = "AssertionError"
    /\ result[1] = PyInt(0)

\* C8 as stated: when the wait for the trigger element timed out, the row
\* has passed = 0, a timeout error kind, and the site fields name the
\* statement of test_scenario.
TriggerTimeoutSiteInsideScenario ==
    (pc = "returned" /\ exc.step = TriggerStatement) =>
        /\ result[1] = PyInt(0)
        /\ result[4] = PyStr("TimeoutException")
        /\ result[5] = PyStr("test_expandable.py")
        /\ result[6] = PyInt(test_scenario[TriggerStatement].line)
        /\ result[7] = PyStr("test_scenario")
        /\ result[8] = PyStr(test_scenario[TriggerStatement].code)

\* C8 as amended: when the wait for the trigger element timed out, the row
\* has passed = 0, a timeout error kind, and the site fields are those of
\* the deepest entry of the traceback, which lies below test_scenario's
\* own frame, in the wait helpers get_element_by_css_selector called.
TriggerTimeoutSiteIsDeepestFrame ==
    (pc = "returned" /\ exc.step = TriggerStatement) =>
        LET tb == exc.tb
            deepest == tb[Len(tb)]
        IN  /\ result[1] = PyInt(0)
            /\ result[4] = PyStr("TimeoutException")
            /\ result[5] = PyStr(deepest.filename)
            /\ result[6] = PyInt(deepest.line)
            /\ result[7] = PyStr(deepest.func)
            /\ result[8] = PyStr(deepest.line_code)
            /\ Len(tb) > 3
            /\ tb[2].func = "test_scenario"
            /\ tb[2].line = test_scenario[TriggerStatement].line
            /\ tb[3].func = "get_element_by_css_selector"
            /\ deepest.func # "test_scenario"
            /\ deepest.filename # "test_expandable.py"

\* Witness of C8: the invocation has returned after the trigger wait timed
\* out.
WitnessTriggerTimeoutReturned ==
    /\ pc = "returned"
    /\ exc.step = TriggerStatement
    /\ exc.kind = "TimeoutException"
    /\ result[1] = PyInt(0)

ConstructorErrorPropagatesUntouched ==
    (pc \notin {"idle", "construct"} /\ driver.session = "none") =>
        /\ pc = "propagated"
        /\ exc = NoException
        /\ retval = << >>
        /\ result = << >>
        /\ timer = TimeMeasure
        /\ hist = NoHistory
        /\ stmt = 0
        /\ driver.closeCalls = 0

\* Witness of C11: the constructor raised and the error left
\* test_expandable after the clock had moved on.
WitnessConstructorRaised ==
    /\ pc = "propagated"
    /\ driver = NoDriver
    /\ driver_class = "firefox"
    /\ now > StartClock

\* The elapsed time test_expandable hands back, or is committed to hand
\* back: the value in the list returned, else the value in the list the
\* except block built, else what a read of timer.elapsed_seconds gives.
RecordedElapsed ==
    IF pc = "returned" THEN result[3]
    ELSE IF retval # << >> THEN retval[3]
    ELSE elapsed_seconds(timer, now)

\* C12: the elapsed time in the list returned is never negative and is
\* the time of the scenario call only: the timer is started no earlier than
\* the end of the constructor call, the value is no more than the time from
\* the start of the timer to the call of close, and from the moment close
\* is next the value to be returned no longer changes, however long close
\* and the return take.
ElapsedCoversScenarioOnly ==
    /\ [](pc \in {"scenario", "except", "stop", "close", "return", "returned"} =>
             timer.start_time >= hist.openedAt)
    /\ [](pc = "returned" =>
             /\ result[3].i >= 0
             /\ result[3].i <= Round2(hist.closedAt - timer.start_time))
    /\ [][(pc \in {"close", "return"}) => (RecordedElapsed' = RecordedElapsed)]_vars

\* Witness of C12: a passed scenario returned a positive elapsed time
\* after the constructor, the scenario and close each took time.
WitnessElapsedExcludesConstructAndClose ==
    /\ pc = "returned"
    /\ exc.kind = ""
    /\ hist.openedAt > StartClock
    /\ timer.start_time > hist.openedAt
    /\ timer.end_time > timer.start_time
    /\ hist.closedAt > timer.end_time
    /\ result[3] = PyFloat(Round2(timer.end_time - timer.start_time))

----------------------------------------------------------------------------
(* Properties of the harness, continued (Spec).                            *)

\* C13: main(repeat=0) on a missing file (the first run) writes the
\* header row and nothing else, and submits no call: no worker is ever
\* dispatched and no result is collected.
RepeatZeroLeavesHeaderOnly ==
    (runs = 1 /\ repeat = 0) =>
        /\ mainPc \in {"create", "loop", "done"}
        /\ \A w \in Workers : wpc[w] = "none" /\ wres[w] = << >>
        /\ res = << >>
        /\ finishOrder = << >>
        /\ mainPc = "create" => ~fileExists /\ file = << >>
        /\ mainPc \in {"loop", "done"} =>
              /\ fileExists
              /\ file = << CsvRow(header) >>
              /\ DataRows = 0

\* Witness of C13: the first run, with repeat = 0, has ended.
WitnessRepeatZeroRunDone ==
    /\ runs = 1
    /\ repeat = 0
    /\ mainPc = "done"
    /\ file = << CsvRow(header) >>

\* C15: the iterations of a run are strictly sequential. While the calls
\* of an iteration are submitted, running, collected or about to be
\* appended, the log holds the complete batches of all earlier iterations
\* of the run; a new iteration is dispatched only from the loop head, where
\* no call of an earlier iteration is pending or running and its batch has
\* been appended.
IterationsStrictlySequential ==
    /\ [](mainPc \in {"loop", "collect", "append"} =>
             DataRows = rowsBefore + iter * Len(drivers))
    /\ []((\E w \in Workers : wpc[w] \in {"pending", "running"}) =>
             /\ mainPc \in {"collect", "unwind"}
             /\ DataRows = rowsBefore + iter * Len(drivers))
    /\ [][(\E w \in Workers : wpc'[w] = "pending" /\ wpc[w] # "pending") =>
             /\ mainPc = "loop"
             /\ \A w \in Workers : wpc[w] \in {"none", "returned"}
             /\ DataRows = rowsBefore + iter * Len(drivers)
             /\ res' = << >>]_vars
    /\ [][(Len(res') > Len(res)) =>
             DataRows = rowsBefore + iter * Len(drivers)]_vars

\* Witness of C15: the second iteration of a run is collecting its first
\* result, the batch of the first iteration being in the log.
WitnessSecondIterationCollecting ==
    /\ mainPc = "collect"
    /\ iter = 1
    /\ Len(res) = 1
    /\ DataRows = rowsBefore + Len(drivers)

\* C16: the log has one writer. Every change of the file is made by main:
\* the header by create_csv_file on a missing file, or one append of a
\* whole batch, made when every call of the iteration has returned its
\* list and no call is running, and counted as one iteration. No step of a
\* worker changes the file.
SingleWriterOneAppendPerIteration ==
    [][(file' # file \/ fileExists' # fileExists) =>
          \/ /\ mainPc = "create"
             /\ ~fileExists
             /\ file' = << CsvRow(header) >>
             /\ wpc' = wpc
          \/ /\ mainPc = "append"
             /\ \A w \in Workers : wpc[w] = "returned"
             /\ Len(res) = Len(drivers)
             /\ Len(file') = Len(file) + Len(drivers)
             /\ iter' = iter + 1
             /\ wpc' = wpc /\ wres' = wres]_vars

\* Witness of C16: two iterations of a run have each made their append.
WitnessTwoBatchesAppended ==
    /\ mainPc = "loop"
    /\ iter = 2
    /\ DataRows = rowsBefore + 2 * Len(drivers)
    /\ \A w \in Workers : wpc[w] = "returned"

----------------------------------------------------------------------------
(* Properties of the driver constructors (DriverSpec).                     *)

HasArgument(o, a) == \E i \in 1..Len(o.arguments) : o.arguments[i] = a
HasPreference(o, k, v) == \E i \in 1..Len(o.preferences) : o.preferences[i] = <<k, v>>

\* C14: whatever the arguments of the constructor, a caller-supplied
\* options object included, the options the session was started with carry
\* the headless argument when headless is true and the user-agent override
\* when a user agent is given.
SessionOptionsCarryHeadlessAndUserAgent ==
    ctor.pc = "done" =>
        /\ ctor.headless => HasArgument(ctor.session, "headless")
        /\ ctor.user_agent # "" =>
              IF ctor.cls = "chrome"
              THEN HasArgument(ctor.session, "--user-agent=" \o ctor.user_agent)
              ELSE HasPreference(ctor.session, "general.useragent.override", ctor.user_agent)

----------------------------------------------------------------------------
(* Properties of one invocation of test_expandable, continued              *)
(* (RecorderSpec).                                                         *)

\* C17: on the failure path the steps come in this order: the failure
\* site is captured into the list to return, then the timer is stopped,
\* then the session is closed, then the list is returned. The list is
\* never handed back while the session is open.
FailurePathOrder ==
    /\ (exc.kind # "" /\ Catches(exc.kind)) =>
          /\ pc \in {"except", "stop", "close", "returned"}
          /\ pc = "except" =>
                retval = << >> /\ timer.end_time = 0 /\ driver.session = "open"
          /\ pc = "stop" =>
                /\ retval # << >>
                /\ SubSeq(retval, 5, 8) = analyse_error(exc.tb)
                /\ timer.end_time = 0
                /\ driver.session = "open"
          /\ pc = "close" =>
                retval # << >> /\ timer.end_time # 0 /\ driver.session = "open"
          /\ pc = "returned" =>
                /\ result = retval
                /\ SubSeq(result, 5, 8) = analyse_error(exc.tb)
                /\ timer.end_time # 0
                /\ timer.end_time <= hist.closedAt
                /\ driver.session = "closed"
          /\ pc # "returned" => result = << >>
    /\ result # << >> => driver.session = "closed"

\* Witness of C17: a failed assertion, whose list was returned after the
\* timer was stopped and, later, the session closed.
WitnessFailureStepsInOrder ==
    /\ pc = "returned"
    /\ exc.kind = "AssertionError"
    /\ result[1] = PyInt(0)
    /\ timer.end_time > timer.start_time
    /\ hist.closedAt > timer.end_time
    /\ driver.session = "closed"

\* C18: test_scenario never uses a stale element: every is_displayed,
\* click and execute_script on an element runs in the frame context in
\* which the element was found, no frame switch lying between.
NoStaleElementUse ==
    /\ ~hist.staleUse
    /\ (pc = "scenario" /\ uses_element(stmt)) =>
          /\ elements[statement_element(stmt)] >= 0
          /\ elements[statement_element(stmt)] = driver.context

\* Witness of C18: the scenario ran to its last statement, which uses
\* modal_div_element, found in the third frame context after the three
\* frame switches of the scenario.
WitnessLastUseAfterFrameSwitches ==
    /\ pc = "scenario"
    /\ stmt = Len(test_scenario)
    /\ uses_element(stmt)
    /\ driver.context = 3
    /\ elements["modal_div_element"] = 3
    /\ elements["banner_element"] = 1

\* The number of seconds a Python number stands for, in milliseconds.
Millis(v) == IF v.t = "int" THEN v.i * 1000 ELSE v.i

\* C20: TimeMeasure.stop() returns the whole seconds between start and
\* stop (the difference truncated), and the list test_expandable returns
\* after stop() ran (the success list of line 95) carries that value.
StopReturnsTruncatedSeconds ==
    timer.end_time # 0 =>
        /\ Millis(hist.stopValue) = IntOf(timer.end_time - timer.start_time) * 1000
        /\ (pc = "returned" /\ exc.kind = "") =>
              Millis(result[3]) = IntOf(timer.end_time - timer.start_time) * 1000

----------------------------------------------------------------------------
(* Properties of the harness under fair scheduling (FairSpec).             *)

ConstructionFailed == \E w \in Workers : wpc[w] = "construct_error"

\* C19: when the constructor fails in a call of an iteration, nothing is
\* appended for that iteration (the lists the other calls returned are
\* dropped), no further iteration is dispatched, main ends with the error,
\* and the rows of the earlier iterations stay in the log.
ConstructionFailureAbortsRun ==
    /\ [](ConstructionFailed =>
             /\ mainPc \in {"collect", "unwind", "aborted"}
             /\ iter < repeat
             /\ DataRows = rowsBefore + iter * Len(drivers))
    /\ [][(ConstructionFailed /\ runs' = runs) =>
             /\ file' = file
             /\ iter' = iter
             /\ mainPc' \in {"collect", "unwind", "aborted"}
             /\ \A w \in Workers : wpc'[w] = "pending" => wpc[w] = "pending"
             /\ \A w \in Workers : wpc[w] = "construct_error" => wpc'[w] = "construct_error"]_vars
    /\ [][(mainPc \in {"unwind", "aborted"} /\ runs' = runs) =>
             /\ file' = file
             /\ mainPc' \in {"unwind", "aborted"}]_vars
    /\ (ConstructionFailed ~> mainPc = "aborted")

\* Witness of C19: in the second iteration chrome returned its list and
\* firefox's constructor raised; main has ended with the error and the log
\* holds the batch of the first iteration only.
WitnessSecondIterationAborted ==
    /\ mainPc = "aborted"
    /\ iter = 1
    /\ wpc[1] = "returned"
    /\ wres[1] # << >>
    /\ wpc[2] = "construct_error"
    /\ DataRows = rowsBefore + Len(drivers)

----------------------------------------------------------------------------
(* Properties of analyse_error as test_expandable calls it (RecorderSpec). *)

\* C21: analyse_error returns the file, line, function and statement of
\* the last entry of the traceback of the exception being handled, at
\* whatever depth below test_expandable the exception was raised: in
\* test_scenario itself (a failed assert), or one, two or three calls
\* below it. The entry is the place of the raise, and no entry above it.
AnalyseErrorReturnsDeepestEntry ==
    (exc.kind # "" /\ retval # << >>) =>
        LET tb == exc.tb
            n == Len(tb)
            site == SubSeq(retval, 5, 8)
        IN  /\ n >= 2
            /\ site = << PyStr(tb[n].filename), PyInt(tb[n].line),
                         PyStr(tb[n].func), PyStr(tb[n].line_code) >>
            /\ \A j \in 1..(n - 1) : tb[j] # tb[n]
            /\ tb[1].func = "test_expandable"
            /\ tb[2].func = "test_scenario"
            /\ tb[2].line = test_scenario[exc.step].line
            /\ exc.kind = "AssertionError" =>
                  n = 2 /\ site[3] = PyStr("test_scenario")
            /\ exc.kind = "TimeoutException" =>
                  n > 2 /\ site[3] = PyStr("until")
            /\ exc.kind = "WebDriverException" =>
                  n > 2 /\ site[3] = PyStr("check_response")
            /\ pc = "returned" => SubSeq(result, 5, 8) = site

\* Witness of C21: the switch back to the parent frame was rejected by the
\* session, two calls below test_scenario, and the list returned names the
\* error handler that raised.
WitnessParentFrameErrorSiteReturned ==
    /\ pc = "returned"
    /\ exc.kind = "WebDriverException"
    /\ test_scenario[exc.step].op = "parent_frame"
    /\ Len(exc.tb) = 4
    /\ result[6] = PyInt(exc.tb[4].line)
    /\ result[7] = PyStr("check_response")

====
